---- MODULE Spec2Model ----
(***************************************************************************)
(* Fall-detection decision pipeline and notification engine.               *)
(*                                                                         *)
(*   FallStateMachine   src/src/decision_engine/state_machine.py           *)
(*   AlertController    src/src/alerts/alert_controller.py                 *)
(*   fall endpoints     src/backend/fall_detection.py                      *)
(*   sessions, notifications   src/backend/elderly_notifications.py        *)
(*   medicine reminders        src/backend/medicine_reminder_system.py     *)
(*   response endpoints        src/backend/main.py                         *)
(*                                                                         *)
(* The state machine's output is the `state` argument of                   *)
(* AlertController.handle; update() and handle() are separate calls and    *)
(* interleave freely.                                                      *)
(***************************************************************************)
EXTENDS Integers, Sequences, FiniteSets, TLC

\* ------------------------------------------------------------------ bounds

\* handle() is not called any more once the controller's timer reached this.
MaxTimer == 11
\* The calls-since-a-spike observation saturates here.
SpikeCap == 6
\* At most this many notify-guardian-safe (and clear-fall) requests are
\* observed per reported fall, and this many reported falls.
MaxSafeCalls == 4
MaxFalls == 4
\* The scheduler's last pass is made at this 30-second tick.
MaxTick == 6
\* At most this many medicine responses and this many direct send() calls.
MaxResponses == 2
MaxSends == 2
\* At most this many can_alert() calls; the count of update() calls since a
\* granted alert saturates at UpdateCap.
MaxCanAlerts == 6
UpdateCap == 12

\* --------------------------------------------------------- program constants

\* fall_timer > 3 leaves POSSIBLE_FALL
GraceTicks == 3
\* timer == 5 sends the guardian (soft) alert
SoftTick == 5
\* timer == 10 sends the GSM (urgent) alert
UrgentTick == 10

\* can_alert() sets alert_cooldown = 10
CooldownTicks == 10

Postures == {"lying", "upright"}
Responses == {"none", "ok", "help"}

VARIABLES
    \* FallStateMachine
    state, fall_timer,
    \* AlertController
    alert_sent, timer, buzzer,
    \* observations of the FallStateMachine calls
    lastUpd, sinceSpike, conjAge,
    \* observations of the AlertController calls
    lastH, incTicks, softCount, urgentCount, closed,
    \* backend/fall_detection.py
    fall_detected, falls, safeNotices, clearCount,
    \* observation of the fall endpoints: the devices that reported a fall and
    \* have not had it cleared since
    reported,
    \* the last direct call of the notification system (its arguments, the
    \* tables before it, what it returned), and per elderly id the device of
    \* the last register call, "unregister", or "none"
    lastCall, lastSessionCall,
    \* the sensing loop: the magnitude of the sample before, the inactivity
    \* flag of the last sample, and the number of samples in a row up to the
    \* last whose magnitude differed from the one before by less than the
    \* tolerance
    prev_magnitude, inactiveNow, quietRun,
    \* the update() calls in a row, up to the last, that left the machine in
    \* POSSIBLE_FALL (counted up to SpikeCap)
    possibleRun,
    \* per request thread, the response it is handling and the medicines
    \* document it has loaded, between load_medicines() and save_medicines()
    inflight,
    \* the scheduler thread when its pass is taken one statement at a time:
    \* where it is, the dict size its items() iterator saw first and the
    \* number of items it has handed out, the local snoozed_to_remove (with the
    \* deadline each entry had when processed) and current_time, the exception
    \* that ended the last pass, and the keys whose entry was deleted after a
    \* request had written a new deadline into it
    pc, it_used, it_pos, snoozed_to_remove, current_time, passError, lostSnooze,
    \* ElderlyNotificationSystem
    elderly_sessions, active_notifications,
    \* MedicineReminderSystem
    active_reminders, snoozed_reminders,
    \* the persisted medicines document and the clock
    medicines, now, lastScan,
    \* observations of the medicine calls: reminders triggered per medicine,
    \* the responses handled, the direct sends made, and the last send,
    \* response or scheduler pass when no other call followed it
    triggered, respLog, sends, lastOp,
    \* ComfortRules
    alert_cooldown,
    \* observations of the ComfortRules calls: the result of can_alert() when
    \* it was the last call, the update() calls since the last granted one, the
    \* update() calls that lay between the last two granted ones, the
    \* can_alert() calls
    lastCan, sinceGrant, grantGap, canCalls,
    \* the last guardian notification request handled: its inputs, the phone
    \* resolved, the channel attempts made and the answer
    lastDispatch

fsmVars == <<state, fall_timer, lastUpd, sinceSpike, conjAge, possibleRun>>
ctlVars == <<alert_sent, timer, buzzer, lastH, incTicks, softCount, urgentCount, closed>>
backendVars == <<fall_detected, falls, safeNotices, clearCount, reported>>
notifVars == <<elderly_sessions, active_notifications>>
reminderVars == <<active_reminders, snoozed_reminders>>
medVars == <<notifVars, reminderVars, medicines, now, lastScan,
             triggered, respLog, sends, lastOp>>
comfortVars == <<alert_cooldown, lastCan, sinceGrant, grantGap, canCalls>>
\* the components that are run on their own
guardianVars == <<lastDispatch>>
\* observation of direct calls of the session registry and the notification store
storeVars == <<lastCall, lastSessionCall>>
\* the scheduler thread inside check_snoozed_reminders()
raceVars == <<pc, it_used, it_pos, snoozed_to_remove, current_time, passError,
              lostSnooze>>
\* the sensing loop of src/main.py
featVars == <<prev_magnitude, inactiveNow, quietRun>>
\* the request threads inside mark_medicine_taken / mark_medicine_missed
saveVars == <<inflight>>
loopVars == <<featVars, saveVars>>
soloVars == <<comfortVars, guardianVars, storeVars, raceVars, loopVars>>
vars == <<fsmVars, ctlVars, backendVars, medVars, soloVars>>

\* ------------------------------------------------------- FallStateMachine

\* update() with the timeout test one tick late
FsmUpdateLateTimeout(st, ft, spike, posture, inactive) ==
    IF st = "NORMAL" THEN
        IF spike THEN [state |-> "POSSIBLE_FALL", fall_timer |-> 0]
        ELSE [state |-> st, fall_timer |-> ft]
    ELSE IF st = "POSSIBLE_FALL" THEN
        IF posture = "lying" /\ inactive
        THEN [state |-> "CONFIRMED_FALL", fall_timer |-> ft + 1]
        ELSE IF ft + 1 > GraceTicks + 1
        THEN [state |-> "NORMAL", fall_timer |-> ft + 1]
        ELSE [state |-> st, fall_timer |-> ft + 1]
    ELSE IF st = "CONFIRMED_FALL" THEN [state |-> "ALERT", fall_timer |-> ft]
    ELSE [state |-> st, fall_timer |-> ft]

\* update() confirming on lying posture OR inactivity
FsmUpdateEither(st, ft, spike, posture, inactive) ==
    IF st = "NORMAL" THEN
        IF spike THEN [state |-> "POSSIBLE_FALL", fall_timer |-> 0]
        ELSE [state |-> st, fall_timer |-> ft]
    ELSE IF st = "POSSIBLE_FALL" THEN
        IF posture = "lying" \/ inactive
        THEN [state |-> "CONFIRMED_FALL", fall_timer |-> ft + 1]
        ELSE IF ft + 1 > GraceTicks
        THEN [state |-> "NORMAL", fall_timer |-> ft + 1]
        ELSE [state |-> st, fall_timer |-> ft + 1]
    ELSE IF st = "CONFIRMED_FALL" THEN [state |-> "ALERT", fall_timer |-> ft]
    ELSE [state |-> st, fall_timer |-> ft]

\* update() that forgets to reset fall_timer on a spike
FsmUpdateNoReset(st, ft, spike, posture, inactive) ==
    IF st = "NORMAL" THEN
        IF spike THEN [state |-> "POSSIBLE_FALL", fall_timer |-> ft]
        ELSE [state |-> st, fall_timer |-> ft]
    ELSE IF st = "POSSIBLE_FALL" THEN
        IF posture = "lying" /\ inactive
        THEN [state |-> "CONFIRMED_FALL", fall_timer |-> ft + 1]
        ELSE IF ft + 1 > GraceTicks
        THEN [state |-> "NORMAL", fall_timer |-> ft + 1]
        ELSE [state |-> st, fall_timer |-> ft + 1]
    ELSE IF st = "CONFIRMED_FALL" THEN [state |-> "ALERT", fall_timer |-> ft]
    ELSE [state |-> st, fall_timer |-> ft]

\* update() that leaves CONFIRMED_FALL only while the sample still shows the fall
FsmUpdateConfirmedWaits(st, ft, spike, posture, inactive) ==
    IF st = "NORMAL" THEN
        IF spike THEN [state |-> "POSSIBLE_FALL", fall_timer |-> 0]
        ELSE [state |-> st, fall_timer |-> ft]
    ELSE IF st = "POSSIBLE_FALL" THEN
        IF posture = "lying" /\ inactive
        THEN [state |-> "CONFIRMED_FALL", fall_timer |-> ft + 1]
        ELSE IF ft + 1 > GraceTicks
        THEN [state |-> "NORMAL", fall_timer |-> ft + 1]
        ELSE [state |-> st, fall_timer |-> ft + 1]
    ELSE IF st = "CONFIRMED_FALL" THEN
        IF posture = "lying" /\ inactive
        THEN [state |-> "ALERT", fall_timer |-> ft]
        ELSE [state |-> st, fall_timer |-> ft]
    ELSE [state |-> st, fall_timer |-> ft]

\* update() that drops out of ALERT when the wearer is upright and moving
FsmUpdateAlertExpires(st, ft, spike, posture, inactive) ==
    IF st = "NORMAL" THEN
        IF spike THEN [state |-> "POSSIBLE_FALL", fall_timer |-> 0]
        ELSE [state |-> st, fall_timer |-> ft]
    ELSE IF st = "POSSIBLE_FALL" THEN
        IF posture = "lying" /\ inactive
        THEN [state |-> "CONFIRMED_FALL", fall_timer |-> ft + 1]
        ELSE IF ft + 1 > GraceTicks
        THEN [state |-> "NORMAL", fall_timer |-> ft + 1]
        ELSE [state |-> st, fall_timer |-> ft + 1]
    ELSE IF st = "CONFIRMED_FALL" THEN [state |-> "ALERT", fall_timer |-> ft]
    ELSE IF posture = "upright" /\ ~inactive
    THEN [state |-> "NORMAL", fall_timer |-> 0]
    ELSE [state |-> st, fall_timer |-> ft]

\* update() in which a spike restarts the grace window
FsmUpdateSpikeRestarts(st, ft, spike, posture, inactive) ==
    IF st = "NORMAL" THEN
        IF spike THEN [state |-> "POSSIBLE_FALL", fall_timer |-> 0]
        ELSE [state |-> st, fall_timer |-> ft]
    ELSE IF st = "POSSIBLE_FALL" THEN
        IF spike THEN [state |-> st, fall_timer |-> 0]
        ELSE IF posture = "lying" /\ inactive
        THEN [state |-> "CONFIRMED_FALL", fall_timer |-> ft + 1]
        ELSE IF ft + 1 > GraceTicks
        THEN [state |-> "NORMAL", fall_timer |-> ft + 1]
        ELSE [state |-> st, fall_timer |-> ft + 1]
    ELSE IF st = "CONFIRMED_FALL" THEN [state |-> "ALERT", fall_timer |-> ft]
    ELSE [state |-> st, fall_timer |-> ft]

\* update() with the timeout test before the confirmation test
FsmUpdateTimeoutFirst(st, ft, spike, posture, inactive) ==
    IF st = "NORMAL" THEN
        IF spike THEN [state |-> "POSSIBLE_FALL", fall_timer |-> 0]
        ELSE [state |-> st, fall_timer |-> ft]
    ELSE IF st = "POSSIBLE_FALL" THEN
        IF ft + 1 > GraceTicks
        THEN [state |-> "NORMAL", fall_timer |-> ft + 1]
        ELSE IF posture = "lying" /\ inactive
        THEN [state |-> "CONFIRMED_FALL", fall_timer |-> ft + 1]
        ELSE [state |-> st, fall_timer |-> ft + 1]
    ELSE IF st = "CONFIRMED_FALL" THEN [state |-> "ALERT", fall_timer |-> ft]
    ELSE [state |-> st, fall_timer |-> ft]

\* FallStateMachine.update(spike, posture, inactive): the new (state, fall_timer)
FsmUpdate(st, ft, spike, posture, inactive) ==
    IF st = "NORMAL" THEN
        IF spike THEN [state |-> "POSSIBLE_FALL", fall_timer |-> 0]
        ELSE [state |-> st, fall_timer |-> ft]
    ELSE IF st = "POSSIBLE_FALL" THEN
        \* self.fall_timer += 1, then the two tests in this order
        IF posture = "lying" /\ inactive
        THEN [state |-> "CONFIRMED_FALL", fall_timer |-> ft + 1]
        ELSE IF ft + 1 > GraceTicks
        THEN [state |-> "NORMAL", fall_timer |-> ft + 1]
        ELSE [state |-> st, fall_timer |-> ft + 1]
    ELSE IF st = "CONFIRMED_FALL" THEN [state |-> "ALERT", fall_timer |-> ft]
    ELSE [state |-> st, fall_timer |-> ft]

\* the confirmation test of update(), on a recorded call
Conjunction(u) == u.posture = "lying" /\ u.inactive

NoUpdate == [pre |-> "none", preTimer |-> 0, spike |-> FALSE,
             posture |-> "upright", inactive |-> FALSE]

FsmInit ==
    /\ state = "NORMAL"
    /\ fall_timer = 0
    /\ lastUpd = NoUpdate
    /\ sinceSpike = SpikeCap
    /\ conjAge = SpikeCap
    /\ possibleRun = 0

\* One update(spike, posture, inactive) call. sinceSpike is the number of
\* calls since the last one whose spike was true (0 on that call); conjAge is
\* the smallest sinceSpike at which a lying-and-inactive sample was ever seen.
\* Both saturate at SpikeCap.
Update(spike, posture, inactive) ==
    LET r == FsmUpdate(state, fall_timer, spike, posture, inactive)
        age == IF spike THEN 0
               ELSE IF sinceSpike < SpikeCap THEN sinceSpike + 1
               ELSE SpikeCap
    IN
    /\ state' = r.state
    /\ fall_timer' = r.fall_timer
    /\ lastUpd' = [pre |-> state, preTimer |-> fall_timer, spike |-> spike,
                   posture |-> posture, inactive |-> inactive]
    /\ sinceSpike' = age
    /\ conjAge' = IF posture = "lying" /\ inactive /\ age < conjAge
                  THEN age ELSE conjAge
    /\ possibleRun' = IF r.state # "POSSIBLE_FALL" THEN 0
                      ELSE IF possibleRun < SpikeCap THEN possibleRun + 1
                      ELSE SpikeCap
    /\ UNCHANGED <<ctlVars, backendVars, medVars, soloVars>>

\* ----------------------------------------------------- inactivity feature

\* Magnitudes are counted in twentieths (0.05): the samples are multiples of
\* a quarter, which floating point subtracts exactly, so that the comparison
\* with 0.3 comes out as it does on the integers.
MaxQuarter == 30
Magnitudes == {5 * k : k \in 0..MaxQuarter}
\* tolerance=0.3
Tolerance == 6
\* the length a quiet run is counted to
QuietCap == 3

Abs(x) == IF x < 0 THEN -x ELSE x

\* is_inactive(magnitude, prev_magnitude, tolerance)
IsInactive(magnitude, prev, tolerance) ==
    IF Abs(magnitude - prev) < tolerance THEN TRUE ELSE FALSE

\* prev_magnitude = 0, no sample yet
FeatInit ==
    /\ prev_magnitude = 0
    /\ inactiveNow = FALSE
    /\ quietRun = 0

\* One round of the loop of main.py for a sample of the given magnitude
Sample(magnitude) ==
    LET quiet == magnitude - prev_magnitude < Tolerance
                 /\ prev_magnitude - magnitude < Tolerance
    IN
    /\ inactiveNow' = IsInactive(magnitude, prev_magnitude, Tolerance)
    /\ prev_magnitude' = magnitude
    /\ quietRun' = IF ~quiet THEN 0
                   ELSE IF quietRun < QuietCap THEN quietRun + 1
                   ELSE QuietCap
    /\ UNCHANGED <<fsmVars, ctlVars, backendVars, medVars, comfortVars,
                   guardianVars, storeVars, raceVars, saveVars>>

\* ----------------------------------------------------------- ComfortRules

\* can_alert() with a cooldown of half the length
CanAlertShort(cd) ==
    IF cd = 0 THEN [cooldown |-> CooldownTicks \div 2, result |-> TRUE]
    ELSE [cooldown |-> cd, result |-> FALSE]

\* ComfortRules.can_alert(): the new alert_cooldown and the result
CanAlert(cd) ==
    IF cd = 0 THEN [cooldown |-> CooldownTicks, result |-> TRUE]
    ELSE [cooldown |-> cd, result |-> FALSE]

\* ComfortRules.update(): the new alert_cooldown
ComfortUpdate(cd) == IF cd > 0 THEN cd - 1 ELSE cd

ComfortInit ==
    /\ alert_cooldown = 0
    /\ lastCan = "none"
    /\ sinceGrant = UpdateCap
    /\ grantGap = UpdateCap
    /\ canCalls = 0

\* one can_alert() call
CanAlertCall ==
    LET r == CanAlert(alert_cooldown) IN
    /\ canCalls < MaxCanAlerts
    /\ canCalls' = canCalls + 1
    /\ alert_cooldown' = r.cooldown
    /\ lastCan' = IF r.result THEN "granted" ELSE "refused"
    /\ sinceGrant' = IF r.result THEN 0 ELSE sinceGrant
    /\ grantGap' = IF r.result THEN sinceGrant ELSE grantGap
    /\ UNCHANGED <<fsmVars, ctlVars, backendVars, medVars, guardianVars, storeVars,
                   raceVars, loopVars>>

\* one update() call of ComfortRules
ComfortUpdateCall ==
    /\ alert_cooldown' = ComfortUpdate(alert_cooldown)
    /\ sinceGrant' = IF sinceGrant < UpdateCap THEN sinceGrant + 1 ELSE UpdateCap
    /\ lastCan' = "none"
    /\ UNCHANGED <<grantGap, canCalls>>
    /\ UNCHANGED <<fsmVars, ctlVars, backendVars, medVars, guardianVars, storeVars,
                   raceVars, loopVars>>

\* -------------------------------------------------------- AlertController

\* reset() that leaves the timer running
CtlResetKeepTimer(c) ==
    [c EXCEPT !.buzzer = FALSE, !.alert_sent = FALSE]

\* reset() that leaves alert_sent set
CtlResetKeepSent(c) ==
    [c EXCEPT !.buzzer = FALSE, !.timer = 0]

\* AlertController.reset() on the controller fields
CtlReset(c) ==
    [c EXCEPT !.buzzer = FALSE, !.alert_sent = FALSE, !.timer = 0]

\* the escalation tests with the urgent alert one tick late
CtlEscalateLate(c) ==
    LET soft == c.timer = SoftTick /\ ~c.alert_sent
        urgent == c.timer = UrgentTick + 1
    IN [c |-> [c EXCEPT !.alert_sent = IF soft THEN TRUE ELSE @],
        soft |-> soft, urgent |-> urgent]

\* the two escalation tests of handle(), applied to the controller fields
CtlEscalate(c) ==
    LET soft == c.timer = SoftTick /\ ~c.alert_sent
        urgent == c.timer = UrgentTick
    IN [c |-> [c EXCEPT !.alert_sent = IF soft THEN TRUE ELSE @],
        soft |-> soft, urgent |-> urgent]

\* handle() testing the escalation thresholds before the acknowledgement
CtlHandleAckLast(c, st, resp) ==
    IF st = "ALERT" THEN
        LET c1 == [c EXCEPT !.buzzer = TRUE, !.timer = @ + 1]
            e == CtlEscalate(c1)
            c2 == IF resp = "ok" THEN CtlReset(e.c) ELSE e.c
        IN [c |-> c2, tick |-> c1.timer, reset |-> resp = "ok",
            soft |-> e.soft, urgent |-> e.urgent]
    ELSE [c |-> CtlReset(c), tick |-> 0, reset |-> TRUE,
          soft |-> FALSE, urgent |-> FALSE]

\* AlertController.handle(state, user_response): the new controller fields and
\* what the call did (timer after the increment, reset() called, alerts sent)
CtlHandle(c, st, resp) ==
    IF st = "ALERT" THEN
        LET c1 == [c EXCEPT !.buzzer = TRUE, !.timer = @ + 1]
            c2 == IF resp = "ok" THEN CtlReset(c1) ELSE c1
            e == CtlEscalate(c2)
        IN [c |-> e.c, tick |-> c1.timer, reset |-> resp = "ok",
            soft |-> e.soft, urgent |-> e.urgent]
    ELSE [c |-> CtlReset(c), tick |-> 0, reset |-> TRUE,
          soft |-> FALSE, urgent |-> FALSE]

NoHandle == [st |-> "none", resp |-> "none", tick |-> 0, ticks |-> 0,
             reset |-> FALSE, soft |-> FALSE, urgent |-> FALSE]
NoIncident == [ticks |-> 0, soft |-> 0, urgent |-> 0]

CtlInit ==
    /\ alert_sent = FALSE
    /\ timer = 0
    /\ buzzer = FALSE
    /\ lastH = NoHandle
    /\ incTicks = 0
    /\ softCount = 0
    /\ urgentCount = 0
    /\ closed = NoIncident

\* One handle(state, user_response) call. The Incident is the run of ALERT
\* calls since the last reset(): incTicks, softCount and urgentCount count its
\* calls and dispatches; `closed` keeps those of the Incident a reset() ended.
Handle(resp) ==
    LET r == CtlHandle([alert_sent |-> alert_sent, timer |-> timer, buzzer |-> buzzer],
                       state, resp)
        n == IF state = "ALERT" THEN incTicks + 1 ELSE incTicks
        b2i(b) == IF b THEN 1 ELSE 0
    IN
    /\ timer < MaxTimer
    /\ alert_sent' = r.c.alert_sent
    /\ timer' = r.c.timer
    /\ buzzer' = r.c.buzzer
    /\ lastH' = [st |-> state, resp |-> resp, tick |-> r.tick, ticks |-> n,
                 reset |-> r.reset, soft |-> r.soft, urgent |-> r.urgent]
    /\ IF r.reset
       THEN /\ closed' = IF n > 0
                         THEN [ticks |-> n, soft |-> softCount, urgent |-> urgentCount]
                         ELSE closed
            /\ incTicks' = 0
            /\ softCount' = b2i(r.soft)
            /\ urgentCount' = b2i(r.urgent)
       ELSE /\ closed' = closed
            /\ incTicks' = n
            /\ softCount' = softCount + b2i(r.soft)
            /\ urgentCount' = urgentCount + b2i(r.urgent)
    /\ UNCHANGED <<fsmVars, backendVars, medVars, soloVars>>

\* ------------------------------------------------- backend fall endpoints

\* device_id of a request
DeviceIds == {"vois_belt", "belt_001"}

BackendInit ==
    /\ fall_detected = FALSE
    /\ falls = 0
    /\ safeNotices = 0
    /\ clearCount = 0
    /\ reported = {}

\* POST /detect-fall. A report while no fall is flagged opens an Incident:
\* falls counts them, safeNotices and clearCount the acknowledgement requests
\* handled since.
DetectFall(device_id) ==
    /\ falls < MaxFalls
    /\ fall_detected' = TRUE
    /\ reported' = reported \cup {device_id}
    /\ falls' = IF fall_detected THEN falls ELSE falls + 1
    /\ safeNotices' = IF fall_detected THEN safeNotices ELSE 0
    /\ clearCount' = IF fall_detected THEN clearCount ELSE 0
    /\ UNCHANGED <<fsmVars, ctlVars, medVars, soloVars>>

\* POST /clear-fall, requested for the user of one device (the request
\* itself carries no id)
ClearFall(device_id) ==
    /\ clearCount < MaxSafeCalls
    /\ fall_detected' = FALSE
    /\ reported' = reported \ {device_id}
    /\ clearCount' = clearCount + 1
    /\ UNCHANGED <<falls, safeNotices, fsmVars, ctlVars, medVars, soloVars>>

\* POST /notify-guardian-safe
NotifyGuardianSafe ==
    /\ safeNotices < MaxSafeCalls
    /\ safeNotices' = safeNotices + 1
    /\ UNCHANGED <<fall_detected, falls, clearCount, reported,
                   fsmVars, ctlVars, medVars, soloVars>>

\* ------------------------------------------- guardian notification requests

\* What get_guardian_phone_for_elderly reads: the two JSON files (present and
\* well formed, missing, or present and unreadable), the entry of the device
\* in the elderly file, its current_user (absent, an elderly of the file, or
\* not one), that elderly's guardian_username (absent, a guardian of the
\* guardians file, or not one) and that guardian's phone.
FileStates == {"ok", "missing", "corrupt"}
Stores ==
    [elderly_file : FileStates, guardians_file : FileStates,
     device_info : BOOLEAN,
     current_user : {"none", "known", "unknown"},
     guardian_username : {"none", "known", "unknown"},
     phone : {"none", "+1"}]

\* get_guardian_phone_for_elderly() that lets its exceptions out
GetGuardianPhoneRaising(device_id, store) ==
    IF store.elderly_file = "corrupt" \/ store.guardians_file = "corrupt"
    THEN [phone |-> "none", raised |-> TRUE]
    ELSE IF device_id = "vois_belt" THEN
        IF store.elderly_file = "missing" THEN [phone |-> "none", raised |-> TRUE]
        ELSE IF store.device_info /\ store.current_user = "known" THEN
            IF store.guardian_username = "none"
            THEN [phone |-> "none", raised |-> FALSE]
            ELSE IF store.guardians_file = "missing"
            THEN [phone |-> "none", raised |-> TRUE]
            ELSE IF store.guardian_username = "known"
            THEN [phone |-> store.phone, raised |-> FALSE]
            ELSE [phone |-> "none", raised |-> FALSE]
        ELSE [phone |-> "none", raised |-> FALSE]
    ELSE [phone |-> "none", raised |-> FALSE]

\* get_guardian_phone_for_elderly(device_id): the phone, "none" for None.
\* json.load of an unreadable file raises; a missing file leaves its variable
\* unbound and the first use of it raises NameError; the except returns None.
GetGuardianPhone(device_id, store) ==
    IF store.elderly_file = "corrupt" \/ store.guardians_file = "corrupt"
    THEN [phone |-> "none", raised |-> FALSE]
    ELSE IF device_id = "vois_belt" THEN
        IF store.elderly_file = "missing" THEN [phone |-> "none", raised |-> FALSE]
        ELSE IF store.device_info /\ store.current_user = "known" THEN
            IF store.guardian_username = "none"
            THEN [phone |-> "none", raised |-> FALSE]
            ELSE IF store.guardians_file = "missing"
            THEN [phone |-> "none", raised |-> FALSE]
            ELSE IF store.guardian_username = "known"
            THEN [phone |-> store.phone, raised |-> FALSE]
            ELSE [phone |-> "none", raised |-> FALSE]
        ELSE [phone |-> "none", raised |-> FALSE]
    ELSE [phone |-> "none", raised |-> FALSE]

\* the result of one twilio_service channel call
ChannelResults == BOOLEAN

\* the SMS and the call of a dispatch, the call made only after a sent SMS
DispatchCallAfterSms(r, sms, call) ==
    IF r.raised THEN [sms_attempts |-> 0, call_attempts |-> 0, status |-> 200]
    ELSE IF r.phone # "none"
    THEN [sms_attempts |-> 1, call_attempts |-> IF sms THEN 1 ELSE 0,
          status |-> 200]
    ELSE [sms_attempts |-> 0, call_attempts |-> 0, status |-> 200]

\* the inner try block of notify_guardian_fall / notify_guardian_no_response
\* on the resolver's result r: `if guardian_phone:` the SMS, then the call,
\* with the results sms and call; an exception of the resolver lands in the
\* inner except. The request is answered 200 either way.
Dispatch(r, sms, call) ==
    IF r.raised THEN [sms_attempts |-> 0, call_attempts |-> 0, status |-> 200]
    ELSE IF r.phone # "none"
    THEN [sms_attempts |-> 1, call_attempts |-> 1, status |-> 200]
    ELSE [sms_attempts |-> 0, call_attempts |-> 0, status |-> 200]

NoDispatch ==
    [op |-> "none", device_id |-> "belt_001",
     store |-> [elderly_file |-> "ok", guardians_file |-> "ok",
                device_info |-> FALSE, current_user |-> "none",
                guardian_username |-> "none", phone |-> "none"],
     sms |-> FALSE, call |-> FALSE, phone |-> "none", raised |-> FALSE,
     sms_attempts |-> 0, call_attempts |-> 0, status |-> 0]

GuardianInit == lastDispatch = NoDispatch

\* One guardian notification request (op names the endpoint). The endpoints
\* read the request and the files and keep nothing from one request to the
\* next, so a request is taken from the initial state only.
NotifyGuardian(op, device_id, store, sms, call) ==
    LET r == GetGuardianPhone(device_id, store)
        d == Dispatch(r, sms, call)
    IN
    /\ lastDispatch.op = "none"
    /\ lastDispatch' =
          [op |-> op, device_id |-> device_id, store |-> store,
           sms |-> sms, call |-> call, phone |-> r.phone, raised |-> r.raised,
           sms_attempts |-> d.sms_attempts, call_attempts |-> d.call_attempts,
           status |-> d.status]
    /\ UNCHANGED <<fsmVars, ctlVars, backendVars, medVars, comfortVars, storeVars,
                   raceVars, loopVars>>

\* POST /notify-guardian-fall
NotifyGuardianFall(device_id, store, sms, call) ==
    NotifyGuardian("fall", device_id, store, sms, call)

\* notify_guardian_no_response()
NotifyGuardianNoResponse(device_id, store, sms, call) ==
    NotifyGuardian("no_response", device_id, store, sms, call)

\* ------------------------------------------------------ strings and keys

\* Identifiers are strings, modelled as sequences of characters.
IdA == <<"a">>
IdAB == <<"a", "_", "b">>
\* an id that has medicines but no entry in the elderly document
IdC == <<"c">>
ElderlyIds == {IdA, IdAB}
MedicineIds == {1}
MedResponses == {"taken", "snooze", "not_taken"}

Digits == <<"0", "1", "2", "3", "4", "5", "6", "7", "8", "9">>

\* str(n) of a non-negative int
RECURSIVE IntToStr(_)
IntToStr(n) ==
    IF n < 10 THEN <<Digits[n + 1]>>
    ELSE IntToStr(n \div 10) \o <<Digits[(n % 10) + 1]>>

\* f"{elderly_id}_{medicine_id}"
MakeKey(e, m) == e \o <<"_">> \o IntToStr(m)

\* key.split('_')
RECURSIVE SplitFrom(_, _, _)
SplitFrom(str, i, cur) ==
    IF i > Len(str) THEN <<cur>>
    ELSE IF str[i] = "_" THEN <<cur>> \o SplitFrom(str, i + 1, <<>>)
    ELSE SplitFrom(str, i + 1, Append(cur, str[i]))

Split(str) == SplitFrom(str, 1, <<>>)

DigitValue(ch) == CHOOSE d \in 0..9 : Digits[d + 1] = ch

\* int(text): -1 stands for the ValueError of a non-numeric text
RECURSIVE ParseDigits(_, _, _)
ParseDigits(str, i, acc) ==
    IF i > Len(str) THEN acc
    ELSE ParseDigits(str, i + 1, acc * 10 + DigitValue(str[i]))

ParseInt(str) ==
    IF str = <<>> \/ \E i \in 1..Len(str) : \A d \in 1..10 : Digits[d] # str[i]
    THEN -1
    ELSE ParseDigits(str, 1, 0)

\* ------------------------------------------------------------------ clock

\* `now` counts 30-second ticks from 08:00:00 of day 0.
ClockMinutes(t) == 8 * 60 + t \div 2

\* strftime("%H:%M")
TimeOfDay(t) == <<(ClockMinutes(t) \div 60) % 24, ClockMinutes(t) % 60>>

\* strftime("%Y-%m-%d"), as a day number
DateOf(t) == ClockMinutes(t) \div (24 * 60)

\* (later - earlier).seconds of a timedelta: the seconds within the day
DeltaSeconds(later, earlier) == ((later - earlier) * 30) % (24 * 60 * 60)

\* the "> 120" of the repeat test
DedupSeconds == 120
\* snooze_reminder(key, 2)
SnoozeMinutes == 2

\* datetime.now() + timedelta(minutes=minutes), in ticks
SnoozeDeadline(t, minutes) == t + minutes * 2

\* --------------------------------------------- ElderlyNotificationSystem

\* a dict with one key removed
Without(f, k) == [x \in DOMAIN f \ {k} |-> f[x]]

\* a dict with f[k] = v
With(f, k, v) == [x \in DOMAIN f \cup {k} |-> IF x = k THEN v ELSE f[x]]

Devices == {"phone", "tablet"}

\* register_elderly_session(elderly_id, device_info)
RegisterSession(sessions, e, device) == With(sessions, e, device)

\* unregister_elderly_session() dropping every session
UnregisterSessionAll(sessions, e) == [x \in {} |-> "phone"]

\* unregister_elderly_session(elderly_id)
UnregisterSession(sessions, e) ==
    IF e \in DOMAIN sessions THEN Without(sessions, e) ELSE sessions

\* send_elderly_notification() without the session test
SendAlways(sessions, notifs, e, m, t) ==
    [ok |-> TRUE,
     notifs |-> With(notifs, MakeKey(e, m),
                     [elderly_id |-> e, medicine_id |-> m,
                      device_info |-> IF e \in DOMAIN sessions
                                      THEN sessions[e] ELSE "phone"])]

\* send_elderly_notification(elderly_id, medicine): the result and the store.
\* Of notification_data the entry keeps elderly_id, the medicine's id and
\* device_info; the texts and the timestamp are not read by any code here.
SendNotification(sessions, notifs, e, m, t) ==
    IF e \notin DOMAIN sessions
    THEN [ok |-> FALSE, notifs |-> notifs]
    ELSE [ok |-> TRUE,
          notifs |-> With(notifs, MakeKey(e, m),
                          [elderly_id |-> e, medicine_id |-> m,
                           device_info |-> sessions[e]])]

IsPrefix(p, s) == Len(p) <= Len(s) /\ SubSeq(s, 1, Len(p)) = p

\* get_elderly_notifications() selecting by the key's prefix
GetNotificationsByPrefix(notifs, e) ==
    [k \in {x \in DOMAIN notifs : IsPrefix(e \o <<"_">>, x)} |-> notifs[k]]

\* get_elderly_notifications(elderly_id)
GetNotifications(notifs, e) ==
    [k \in {x \in DOMAIN notifs : notifs[x].elderly_id = e} |-> notifs[k]]

\* clear_elderly_notification(elderly_id, medicine_id)
ClearNotification(notifs, e, m) ==
    IF MakeKey(e, m) \in DOMAIN notifs THEN Without(notifs, MakeKey(e, m))
    ELSE notifs

\* ------------------------------------------------- MedicineReminderSystem

\* load_elderly(): the known elderly ids
ElderlyData == ElderlyIds

\* the order of the medicines document's keys
ElderlyOrder == <<IdA, IdAB, IdC>>

\* load_medicines() at start: one active medicine each, due at 08:00, in range
InitialMedicines ==
    [e \in ElderlyIds |->
        << [id |-> 1, times |-> << <<8, 0>> >>, start_date |-> 0, end_date |-> 1,
            active |-> TRUE, confirmation_history |-> <<>>] >>]

\* index of the first medicine of the list with this id, 0 if none
FindMedicine(list, mid) ==
    IF \E j \in 1..Len(list) : list[j].id = mid
    THEN CHOOSE j \in 1..Len(list) :
            list[j].id = mid /\ \A i \in 1..(j - 1) : list[i].id # mid
    ELSE 0

\* mark_medicine_taken / mark_medicine_missed that store the new entry as
\* the whole history
MarkMedicineReplace(meds, e, m, taken, t) ==
    IF e \in DOMAIN meds /\ FindMedicine(meds[e], m) > 0
    THEN LET j == FindMedicine(meds[e], m)
             c == [time_taken |-> TimeOfDay(t), taken |-> taken, timestamp |-> t,
                   type |-> IF taken THEN "automatic_reminder" ELSE "missed_dose"]
         IN [meds EXCEPT ![e][j].confirmation_history = <<c>>]
    ELSE meds

\* mark_medicine_taken / mark_medicine_missed: load, append, save
MarkMedicine(meds, e, m, taken, t) ==
    IF e \in DOMAIN meds /\ FindMedicine(meds[e], m) > 0
    THEN LET j == FindMedicine(meds[e], m)
             c == [time_taken |-> TimeOfDay(t), taken |-> taken, timestamp |-> t,
                   type |-> IF taken THEN "automatic_reminder" ELSE "missed_dose"]
         IN [meds EXCEPT ![e][j].confirmation_history = Append(@, c)]
    ELSE meds

\* snooze_reminder(key, minutes) on the ordered snooze dict
SnoozeReminder(snoozed, key, minutes, t) ==
    IF \E i \in 1..Len(snoozed) : snoozed[i].key = key
    THEN [i \in 1..Len(snoozed) |->
            IF snoozed[i].key = key
            THEN [key |-> key, until |-> SnoozeDeadline(t, minutes)]
            ELSE snoozed[i]]
    ELSE Append(snoozed, [key |-> key, until |-> SnoozeDeadline(t, minutes)])

\* clear_reminder(key). Nothing writes data/active_notifications.json
\* (send_notification has no caller), so only active_reminders changes.
ClearReminder(reminders, key) ==
    IF key \in DOMAIN reminders THEN Without(reminders, key) ELSE reminders

\* handle_response(elderly_id, medicine_id, response) on (medicines,
\* active_reminders, snoozed_reminders)
HandleResponse(st, e, m, resp, t) ==
    IF resp = "taken" THEN
        [st EXCEPT !.medicines = MarkMedicine(@, e, m, TRUE, t),
                   !.reminders = ClearReminder(@, MakeKey(e, m))]
    ELSE IF resp = "snooze" THEN
        [st EXCEPT !.snoozed = SnoozeReminder(@, MakeKey(e, m), SnoozeMinutes, t)]
    ELSE IF resp = "not_taken" THEN
        [st EXCEPT !.medicines = MarkMedicine(@, e, m, FALSE, t),
                   !.reminders = ClearReminder(@, MakeKey(e, m))]
    ELSE st

\* trigger_medicine_reminder() that texts the guardian when the elderly
\* device could not be reached
TriggerReminderGuardianFallback(acc, sessions, e, m, t) ==
    [acc EXCEPT !.notifs = SendNotification(sessions, @, e, m, t).notifs,
                !.trig = [@ EXCEPT ![<<e, m>>] = @ + 1],
                !.channels = @ \cup {"voice", "elderly_send"} \cup
                    (IF SendNotification(sessions, acc.notifs, e, m, t).ok
                     THEN {} ELSE {"guardian_sms"})]

\* trigger_medicine_reminder(elderly_id, medicine, elderly_info): the voice
\* alert and the send to the elderly device; acc.trig counts the calls and
\* acc.channels collects the channels invoked
TriggerReminder(acc, sessions, e, m, t) ==
    [acc EXCEPT !.notifs = SendNotification(sessions, @, e, m, t).notifs,
                !.trig = [@ EXCEPT ![<<e, m>>] = @ + 1],
                !.channels = @ \cup {"voice", "elderly_send"}]

\* check_snoozed_reminders(): the loop over snoozed_reminders.items() from
\* entry i on. error is the ValueError of the unpacking or of int().
RECURSIVE SnoozedLoop(_, _, _, _, _, _)
SnoozedLoop(i, snoozed, acc, sessions, meds, t) ==
    IF i > Len(snoozed) THEN acc
    ELSE IF t < snoozed[i].until
    THEN SnoozedLoop(i + 1, snoozed, acc, sessions, meds, t)
    ELSE
        LET key == snoozed[i].key
            parts == Split(key)
        IN
        IF Len(parts) # 2 THEN [acc EXCEPT !.error = TRUE]
        ELSE
            LET e == parts[1]
                mid == ParseInt(parts[2])
                done == [acc EXCEPT !.remove = @ \cup {key}]
            IN
            IF e \in ElderlyData /\ e \in DOMAIN meds /\ Len(meds[e]) > 0
            THEN IF mid = -1 THEN [acc EXCEPT !.error = TRUE]
                 ELSE IF FindMedicine(meds[e], mid) > 0
                 THEN SnoozedLoop(i + 1, snoozed,
                                  TriggerReminder(done, sessions, e, mid, t),
                                  sessions, meds, t)
                 ELSE SnoozedLoop(i + 1, snoozed, done, sessions, meds, t)
            ELSE SnoozedLoop(i + 1, snoozed, done, sessions, meds, t)

\* the removal of the processed entries that ends check_snoozed_reminders()
RemoveSnoozed(snoozed, remove) ==
    SelectSeq(snoozed, LAMBDA ent : ent.key \notin remove)

\* the body of `if med_time == current_time:` for one medicine
DueStep(acc, sessions, e, m, t) ==
    LET key == MakeKey(e, m) IN
    IF key \notin DOMAIN acc.reminders
    THEN [TriggerReminder(acc, sessions, e, m, t) EXCEPT
             !.reminders = With(@, key, t)]
    ELSE IF DeltaSeconds(t, acc.reminders[key]) > DedupSeconds
            /\ key \in DOMAIN acc.notifs
    THEN [TriggerReminder(acc, sessions, e, m, t) EXCEPT
             !.reminders = With(@, key, t)]
    ELSE acc

\* for med_time in medicine_times, from entry k on
RECURSIVE TimesLoop(_, _, _, _, _, _)
TimesLoop(k, med, acc, sessions, e, t) ==
    IF k > Len(med.times) THEN acc
    ELSE TimesLoop(k + 1, med,
                   IF med.times[k] = TimeOfDay(t)
                   THEN DueStep(acc, sessions, e, med.id, t) ELSE acc,
                   sessions, e, t)

\* the date-range test alone
EligibleIgnoreActive(med, t) ==
    (med.start_date # -1 /\ med.end_date # -1) =>
        (med.start_date <= DateOf(t) /\ DateOf(t) <= med.end_date)

\* the active and date-range tests of one medicine
Eligible(med, t) ==
    /\ med.active
    /\ (med.start_date # -1 /\ med.end_date # -1) =>
          (med.start_date <= DateOf(t) /\ DateOf(t) <= med.end_date)

\* for medicine in medicine_list, from entry j on
RECURSIVE MedicineLoop(_, _, _, _, _, _)
MedicineLoop(j, list, acc, sessions, e, t) ==
    IF j > Len(list) THEN acc
    ELSE MedicineLoop(j + 1, list,
                      IF Eligible(list[j], t)
                      THEN TimesLoop(1, list[j], acc, sessions, e, t) ELSE acc,
                      sessions, e, t)

\* for elderly_id, medicine_list in medicines.items(), from entry i on
RECURSIVE ElderlyLoop(_, _, _, _, _)
ElderlyLoop(i, meds, acc, sessions, t) ==
    IF i > Len(ElderlyOrder) THEN acc
    ELSE LET e == ElderlyOrder[i] IN
         ElderlyLoop(i + 1, meds,
                     IF e \in ElderlyData /\ e \in DOMAIN meds
                     THEN MedicineLoop(1, meds[e], acc, sessions, e, t) ELSE acc,
                     sessions, t)

\* one pass of the while loop of check_medicine_times(): the snoozed
\* reminders first, then the schedules; an exception ends the pass
ScanPass(st, sessions, t) ==
    LET acc0 == [notifs |-> st.notifs, trig |-> st.trig,
                 reminders |-> st.reminders, remove |-> {}, error |-> FALSE,
                 channels |-> {}]
        a1 == SnoozedLoop(1, st.snoozed, acc0, sessions, st.medicines, t)
        a2 == ElderlyLoop(1, st.medicines, a1, sessions, t)
    IN
    IF a1.error
    THEN [st EXCEPT !.notifs = a1.notifs, !.trig = a1.trig, !.error = TRUE,
                    !.channels = a1.channels]
    ELSE [st EXCEPT !.notifs = a2.notifs, !.trig = a2.trig,
                    !.reminders = a2.reminders,
                    !.snoozed = RemoveSnoozed(@, a1.remove), !.error = FALSE,
                    !.channels = a2.channels]

EmptyDict == [x \in {} |-> 0]

\* the part of a dict under one key
Only(f, k) == [x \in DOMAIN f \cap {k} |-> f[x]]

NoOp == [op |-> "none", e |-> <<>>, m |-> 0, resp |-> "none", ok |-> FALSE,
         pre |-> EmptyDict, channels |-> {}]

NoCall == [op |-> "none", e |-> <<>>, m |-> 0, sessions |-> EmptyDict,
           notifs |-> EmptyDict, got |-> EmptyDict]

\* no call of the notification system yet
StoreInit ==
    /\ lastCall = NoCall
    /\ lastSessionCall = [e \in ElderlyIds |-> "none"]

MedInit ==
    /\ elderly_sessions = EmptyDict
    /\ active_notifications = EmptyDict
    /\ active_reminders = EmptyDict
    /\ snoozed_reminders = <<>>
    /\ medicines = InitialMedicines
    /\ now = 0
    /\ lastScan = -1
    /\ triggered = [k \in ElderlyIds \X MedicineIds |-> 0]
    /\ respLog = <<>>
    /\ sends = 0
    /\ lastOp = NoOp

\* one schedule entry of the medicines document; -1 is an absent date
SchedMed(active, start, end, times) ==
    [id |-> 1, times |-> times, start_date |-> start, end_date |-> end,
     active |-> active, confirmation_history |-> <<>>]

\* medicines documents the scheduler can be started on: the schedule of a
\* known elderly, active or not, in range, not yet started, ended or undated,
\* due once or twice; and a due schedule filed under an unknown elderly id
ScheduleDocs ==
    { (IdA :> << SchedMed(a, r[1], r[2], ts) >>)
        @@ (IdC :> << SchedMed(TRUE, 0, 1, << <<8, 0>> >>) >>) :
      a \in BOOLEAN,
      r \in {<<0, 1>>, <<1, 2>>, <<-3, -2>>, <<-1, -1>>},
      ts \in { << <<8, 0>> >>, << <<8, 0>>, <<8, 3>> >> } }

SchedInit ==
    /\ elderly_sessions = EmptyDict
    /\ active_notifications = EmptyDict
    /\ active_reminders = EmptyDict
    /\ snoozed_reminders = <<>>
    /\ medicines \in ScheduleDocs
    /\ now = 0
    /\ lastScan = -1
    /\ triggered = [k \in {IdA, IdC} \X MedicineIds |-> 0]
    /\ respLog = <<>>
    /\ sends = 0
    /\ lastOp = NoOp

MedState ==
    [notifs |-> active_notifications, trig |-> triggered,
     reminders |-> active_reminders, snoozed |-> snoozed_reminders,
     medicines |-> medicines, error |-> FALSE, channels |-> {}]

\* One pass of the scheduler thread. The first pass runs at start, every
\* later one time.sleep(30) after the one before: the clock is read in units
\* of passes, a request carries the tick of the last pass.
Scan ==
    LET t == IF lastScan < 0 THEN now ELSE now + 1
        r == ScanPass(MedState, elderly_sessions, t)
    IN
    /\ t <= MaxTick
    /\ now' = t
    /\ lastScan' = t
    /\ active_notifications' = r.notifs
    /\ triggered' = r.trig
    /\ active_reminders' = r.reminders
    /\ snoozed_reminders' = r.snoozed
    /\ lastOp' = [NoOp EXCEPT !.op = "scan", !.ok = ~r.error,
                              !.channels = r.channels]
    /\ UNCHANGED <<elderly_sessions, medicines, respLog, sends,
                   fsmVars, ctlVars, backendVars, soloVars>>

\* POST /elderly/register-session
Register(e, device) ==
    /\ elderly_sessions' = RegisterSession(elderly_sessions, e, device)
    /\ lastOp' = NoOp
    /\ UNCHANGED <<active_notifications, reminderVars, medicines, now, lastScan,
                   triggered, respLog, sends, fsmVars, ctlVars, backendVars, soloVars>>

\* POST /elderly/unregister-session
Unregister(e) ==
    /\ elderly_sessions' = UnregisterSession(elderly_sessions, e)
    /\ lastOp' = NoOp
    /\ UNCHANGED <<active_notifications, reminderVars, medicines, now, lastScan,
                   triggered, respLog, sends, fsmVars, ctlVars, backendVars, soloVars>>

\* send_elderly_notification(elderly_id, medicine), the module-level send
Send(e, m) ==
    LET r == SendNotification(elderly_sessions, active_notifications, e, m, now) IN
    /\ sends < MaxSends
    /\ sends' = sends + 1
    /\ active_notifications' = r.notifs
    /\ lastOp' = [op |-> "send", e |-> e, m |-> m, resp |-> "none", ok |-> r.ok,
                  pre |-> active_notifications, channels |-> {}]
    /\ lastCall' = NoCall
    /\ UNCHANGED <<elderly_sessions, reminderVars, medicines, now, lastScan,
                   triggered, respLog, fsmVars, ctlVars, backendVars,
                   comfortVars, guardianVars, lastSessionCall, raceVars, loopVars>>

\* POST /medicine-reminder-response: handle_medicine_response only
MedicineReminderResponse(e, m, resp) ==
    LET r == HandleResponse(MedState, e, m, resp, now) IN
    /\ Len(respLog) < MaxResponses
    /\ medicines' = r.medicines
    /\ active_reminders' = r.reminders
    /\ snoozed_reminders' = r.snoozed
    /\ respLog' = Append(respLog, [e |-> e, m |-> m, resp |-> resp, at |-> now])
    /\ lastOp' = [op |-> "response", e |-> e, m |-> m, resp |-> resp, ok |-> TRUE,
                  pre |-> Only(active_notifications, MakeKey(e, m)),
                  channels |-> {}]
    /\ UNCHANGED <<notifVars, now, lastScan, triggered, sends,
                   fsmVars, ctlVars, backendVars, soloVars>>

\* POST /elderly/clear-notification: handle_medicine_response, then
\* clear_elderly_notification unless the response is 'snooze'
ClearElderlyNotification(e, m, resp) ==
    LET r == HandleResponse(MedState, e, m, resp, now) IN
    /\ Len(respLog) < MaxResponses
    /\ medicines' = r.medicines
    /\ active_reminders' = r.reminders
    /\ snoozed_reminders' = r.snoozed
    /\ active_notifications' =
          IF resp # "snooze" THEN ClearNotification(active_notifications, e, m)
          ELSE active_notifications
    /\ respLog' = Append(respLog, [e |-> e, m |-> m, resp |-> resp, at |-> now])
    /\ lastOp' = [op |-> "response", e |-> e, m |-> m, resp |-> resp, ok |-> TRUE,
                  pre |-> Only(active_notifications, MakeKey(e, m)),
                  channels |-> {}]
    /\ UNCHANGED <<elderly_sessions, now, lastScan, triggered, sends,
                   fsmVars, ctlVars, backendVars, soloVars>>

\* the tables left alone by a direct call of the notification system
StoreFrame ==
    UNCHANGED <<reminderVars, medicines, now, lastScan, triggered, respLog,
                sends, lastOp, fsmVars, ctlVars, backendVars,
                comfortVars, guardianVars, raceVars, loopVars>>

\* the arguments of a call and the tables it starts from
Call(op, e, m) ==
    [op |-> op, e |-> e, m |-> m, sessions |-> elderly_sessions,
     notifs |-> active_notifications, got |-> EmptyDict]

\* register_elderly_session(elderly_id, device_info), the module-level function
RegisterCall(e, device) ==
    /\ elderly_sessions' = RegisterSession(elderly_sessions, e, device)
    /\ lastSessionCall' = [lastSessionCall EXCEPT ![e] = device]
    /\ lastCall' = Call("register", e, 0)
    /\ UNCHANGED active_notifications
    /\ StoreFrame

\* unregister_elderly_session() that also drops the stored notifications of
\* the elderly id
UnregisterCallPurging(e) ==
    /\ elderly_sessions' = UnregisterSession(elderly_sessions, e)
    /\ lastSessionCall' = [lastSessionCall EXCEPT ![e] = "unregister"]
    /\ lastCall' = Call("unregister", e, 0)
    /\ active_notifications' =
          [k \in {x \in DOMAIN active_notifications :
                     active_notifications[x].elderly_id # e}
             |-> active_notifications[k]]
    /\ StoreFrame

\* unregister_elderly_session(elderly_id), the module-level function
UnregisterCall(e) ==
    /\ elderly_sessions' = UnregisterSession(elderly_sessions, e)
    /\ lastSessionCall' = [lastSessionCall EXCEPT ![e] = "unregister"]
    /\ lastCall' = Call("unregister", e, 0)
    /\ UNCHANGED active_notifications
    /\ StoreFrame

\* elderly_notification_system.get_elderly_notifications(elderly_id)
GetNotificationsCall(e) ==
    /\ lastCall' = [Call("get", e, 0) EXCEPT
                       !.got = GetNotifications(active_notifications, e)]
    /\ UNCHANGED <<notifVars, lastSessionCall>>
    /\ StoreFrame

\* elderly_notification_system.clear_elderly_notification(elderly_id, medicine_id)
ClearNotificationCall(e, m) ==
    /\ active_notifications' = ClearNotification(active_notifications, e, m)
    /\ lastCall' = Call("clear", e, m)
    /\ UNCHANGED <<elderly_sessions, lastSessionCall>>
    /\ StoreFrame

\* ---------------------------- responses, from load_medicines() to save

\* the request threads
Workers == {"w1", "w2"}

NoRequest == [e |-> <<>>, m |-> 0, resp |-> "none", doc |-> EmptyDict]

\* no response is being handled
SaveInit == inflight = [w \in Workers |-> NoRequest]

\* the responses being handled
InFlight == {w \in Workers : inflight[w].resp # "none"}

\* what the two halves of a response leave alone
SaveFrame ==
    UNCHANGED <<notifVars, snoozed_reminders, now, lastScan, triggered, sends,
                fsmVars, ctlVars, backendVars, comfortVars, guardianVars,
                storeVars, raceVars, featVars>>

\* handle_response(elderly_id, medicine_id, 'taken' | 'not_taken') up to
\* `medicines = load_medicines()` of mark_medicine_taken / mark_medicine_missed
MarkLoad(w, e, m, resp) ==
    /\ inflight[w].resp = "none"
    /\ Len(respLog) + Cardinality(InFlight) < MaxResponses
    /\ inflight' = [inflight EXCEPT ![w] =
                        [e |-> e, m |-> m, resp |-> resp, doc |-> medicines]]
    /\ UNCHANGED <<medicines, active_reminders, respLog, lastOp>>
    /\ SaveFrame

\* The rest of the response: the entry is appended to the loaded document,
\* save_medicines() writes that document, clear_reminder(key) follows
MarkSave(w) ==
    LET r == inflight[w]
        found == r.e \in DOMAIN r.doc /\ FindMedicine(r.doc[r.e], r.m) > 0
    IN
    /\ r.resp # "none"
    /\ medicines' = IF found
                    THEN MarkMedicine(r.doc, r.e, r.m, r.resp = "taken", now)
                    ELSE medicines
    /\ active_reminders' = ClearReminder(active_reminders, MakeKey(r.e, r.m))
    /\ respLog' = Append(respLog, [e |-> r.e, m |-> r.m, resp |-> r.resp, at |-> now])
    /\ lastOp' = [op |-> "response", e |-> r.e, m |-> r.m, resp |-> r.resp,
                  ok |-> TRUE,
                  pre |-> Only(active_notifications, MakeKey(r.e, r.m)),
                  channels |-> {}]
    /\ inflight' = [inflight EXCEPT ![w] = NoRequest]
    /\ SaveFrame

\* ------------------------------------- the pass, statement by statement

\* the scheduler thread sleeps
RaceInit ==
    /\ pc = "idle"
    /\ it_used = 0
    /\ it_pos = 0
    /\ snoozed_to_remove = <<>>
    /\ current_time = 0
    /\ passError = "none"
    /\ lostSnooze = {}

\* what no statement of the scheduler thread touches
RaceFrame ==
    UNCHANGED <<elderly_sessions, medicines, respLog, sends,
                fsmVars, ctlVars, backendVars, comfortVars, guardianVars, storeVars,
                loopVars>>

\* The pass starts: the clock is read, check_snoozed_reminders() is entered
\* and the for statement takes the iterator of snoozed_reminders.items()
RaceBegin ==
    LET t == IF lastScan < 0 THEN now ELSE now + 1 IN
    /\ pc = "idle"
    /\ t <= MaxTick
    /\ now' = t
    /\ lastScan' = t
    /\ current_time' = t
    /\ it_used' = Len(snoozed_reminders)
    /\ it_pos' = 0
    /\ snoozed_to_remove' = <<>>
    /\ passError' = "none"
    /\ pc' = "iter"
    /\ lastOp' = NoOp
    /\ UNCHANGED <<active_notifications, reminderVars, triggered, lostSnooze>>
    /\ RaceFrame

\* One round of the for statement: the iterator is asked for the next item
\* and raises RuntimeError (dictionary changed size during iteration) when
\* the dict has another size than at its creation; otherwise the body runs
\* for that item, or the loop ends. An exception leaves the pass through the
\* except of check_medicine_times(). Nothing deletes from the dict while the
\* loop runs, so the items come in insertion order.
RaceIter ==
    LET ent == snoozed_reminders[it_pos + 1]
        acc0 == [notifs |-> active_notifications, trig |-> triggered,
                 reminders |-> active_reminders, remove |-> {}, error |-> FALSE,
                 channels |-> {}]
        a == SnoozedLoop(1, <<ent>>, acc0, elderly_sessions, medicines,
                         current_time)
    IN
    /\ pc = "iter"
    /\ IF Len(snoozed_reminders) # it_used
       THEN /\ passError' = "RuntimeError"
            /\ pc' = "idle"
            /\ UNCHANGED <<active_notifications, triggered, snoozed_to_remove,
                           it_pos>>
       ELSE IF it_pos = Len(snoozed_reminders)
       THEN /\ pc' = "remove"
            /\ UNCHANGED <<active_notifications, triggered, snoozed_to_remove,
                           it_pos, passError>>
       ELSE /\ active_notifications' = a.notifs
            /\ triggered' = a.trig
            /\ it_pos' = it_pos + 1
            /\ snoozed_to_remove' =
                  IF a.remove = {} THEN snoozed_to_remove
                  ELSE Append(snoozed_to_remove, ent)
            /\ passError' = IF a.error THEN "ValueError" ELSE "none"
            /\ pc' = IF a.error THEN "idle" ELSE "iter"
    /\ lastOp' = NoOp
    /\ UNCHANGED <<reminderVars, now, lastScan, current_time, it_used, lostSnooze>>
    /\ RaceFrame

\* One round of `for key in snoozed_to_remove: del self.snoozed_reminders[key]`.
\* The entry is lost when its deadline is no longer the one that was processed.
RaceRemove ==
    LET d == Head(snoozed_to_remove)
        rewritten == \E j \in 1..Len(snoozed_reminders) :
                        /\ snoozed_reminders[j].key = d.key
                        /\ snoozed_reminders[j].until # d.until
    IN
    /\ pc = "remove"
    /\ IF snoozed_to_remove = <<>>
       THEN /\ pc' = "sched"
            /\ UNCHANGED <<snoozed_reminders, snoozed_to_remove, lostSnooze>>
       ELSE /\ snoozed_reminders' = RemoveSnoozed(snoozed_reminders, {d.key})
            /\ snoozed_to_remove' = Tail(snoozed_to_remove)
            /\ lostSnooze' = IF rewritten THEN lostSnooze \cup {d.key}
                             ELSE lostSnooze
            /\ pc' = "remove"
    /\ lastOp' = NoOp
    /\ UNCHANGED <<active_notifications, active_reminders, triggered, now,
                   lastScan, current_time, it_used, it_pos, passError>>
    /\ RaceFrame

\* The rest of the pass: the loop over the schedules. No request of RaceNext
\* writes the medicines document, so the copy loaded when the pass began is
\* the document.
RaceSchedule ==
    LET acc0 == [notifs |-> active_notifications, trig |-> triggered,
                 reminders |-> active_reminders, remove |-> {}, error |-> FALSE,
                 channels |-> {}]
        a == ElderlyLoop(1, medicines, acc0, elderly_sessions, current_time)
    IN
    /\ pc = "sched"
    /\ active_notifications' = a.notifs
    /\ triggered' = a.trig
    /\ active_reminders' = a.reminders
    /\ pc' = "idle"
    /\ lastOp' = NoOp
    /\ UNCHANGED <<snoozed_reminders, snoozed_to_remove, now, lastScan,
                   current_time, it_used, it_pos, passError, lostSnooze>>
    /\ RaceFrame

\* ------------------------------------------------------------ specification

Init ==
    /\ FsmInit /\ CtlInit /\ BackendInit /\ MedInit
    /\ ComfortInit /\ GuardianInit /\ StoreInit /\ RaceInit /\ FeatInit
    /\ SaveInit

\* The sensing loop: update() and handle() calls
Next ==
    \/ \E spike \in BOOLEAN, posture \in Postures, inactive \in BOOLEAN :
          Update(spike, posture, inactive)
    \/ \E resp \in Responses : Handle(resp)

Spec == Init /\ [][Next]_vars

\* The fall endpoints of the backend
BackendNext ==
    \/ \E device_id \in DeviceIds : DetectFall(device_id)
    \/ \E device_id \in DeviceIds : ClearFall(device_id)
    \/ NotifyGuardianSafe

BackendSpec == Init /\ [][BackendNext]_vars

\* The scheduler thread and the requests of the medicine side
MedNext ==
    \/ Scan
    \/ \E e \in ElderlyIds : Register(e, "phone")
    \/ \E e \in ElderlyIds : Unregister(e)
    \/ \E e \in ElderlyIds, m \in MedicineIds, resp \in MedResponses :
          MedicineReminderResponse(e, m, resp)
    \/ \E e \in ElderlyIds, m \in MedicineIds, resp \in MedResponses :
          ClearElderlyNotification(e, m, resp)

MedSpec == Init /\ [][MedNext]_vars

\* the elderly ids of the requests that meet the scheduler mid-pass: a known
\* one and an unknown one, both with keys that check_snoozed_reminders() can
\* take apart
RaceIds == {IdA, IdC}

\* The scheduler thread, statement by statement, and snooze requests of the
\* request threads in between
RaceNext ==
    \/ RaceBegin
    \/ RaceIter
    \/ RaceRemove
    \/ RaceSchedule
    \/ \E e \in RaceIds, m \in MedicineIds : MedicineReminderResponse(e, m, "snooze")
    \/ \E e \in RaceIds : Register(e, "phone")

RaceSpec == Init /\ [][RaceNext]_vars

\* Two request threads handling 'taken' and 'not_taken' responses, and the
\* scheduler thread
SaveNext ==
    \/ \E w \in Workers, e \in ElderlyIds, m \in MedicineIds,
          resp \in {"taken", "not_taken"} : MarkLoad(w, e, m, resp)
    \/ \E w \in Workers : MarkSave(w)
    \/ Scan

SaveSpec == Init /\ [][SaveNext]_vars

\* The sensing loop of main.py
FeatNext == \E magnitude \in Magnitudes : Sample(magnitude)

FeatSpec == Init /\ [][FeatNext]_vars

\* Direct calls of the notification system
StoreNext ==
    \/ \E e \in ElderlyIds, device \in Devices : RegisterCall(e, device)
    \/ \E e \in ElderlyIds : UnregisterCall(e)
    \/ \E e \in ElderlyIds, m \in MedicineIds : Send(e, m)
    \/ \E e \in ElderlyIds : GetNotificationsCall(e)
    \/ \E e \in ElderlyIds, m \in MedicineIds : ClearNotificationCall(e, m)

StoreSpec == Init /\ [][StoreNext]_vars

\* The session registry and the notification store on their own
NotifNext ==
    \/ \E e \in ElderlyIds, device \in Devices : Register(e, device)
    \/ \E e \in ElderlyIds : Unregister(e)
    \/ \E e \in ElderlyIds, m \in MedicineIds : Send(e, m)
    \/ \E e \in ElderlyIds, m \in MedicineIds, resp \in MedResponses :
          ClearElderlyNotification(e, m, resp)

NotifSpec == Init /\ [][NotifNext]_vars

\* The guardian notification requests
GuardianNext ==
    \/ \E device_id \in DeviceIds, store \in Stores,
          sms \in ChannelResults, call \in ChannelResults :
          NotifyGuardianFall(device_id, store, sms, call)
    \/ \E device_id \in DeviceIds, store \in Stores,
          sms \in ChannelResults, call \in ChannelResults :
          NotifyGuardianNoResponse(device_id, store, sms, call)

GuardianSpec == Init /\ [][GuardianNext]_vars

\* The alert cooldown on its own
ComfortNext ==
    \/ CanAlertCall
    \/ ComfortUpdateCall

ComfortSpec == Init /\ [][ComfortNext]_vars

\* The scheduler thread over the schedule documents, with the session and
\* the responses of the one known elderly
SchedNext ==
    \/ Scan
    \/ Register(IdA, "phone")
    \/ Unregister(IdA)
    \/ \E resp \in MedResponses : MedicineReminderResponse(IdA, 1, resp)
    \/ \E resp \in MedResponses : ClearElderlyNotification(IdA, 1, resp)

SchedStart ==
    /\ FsmInit /\ CtlInit /\ BackendInit /\ SchedInit
    /\ ComfortInit /\ GuardianInit /\ StoreInit /\ RaceInit /\ FeatInit
    /\ SaveInit

SchedSpec == SchedStart /\ [][SchedNext]_vars

\* ------------------------------------------------------------------ claims


\* C1 (as stated): in an input sequence with no lying-and-inactive sample
\* within 3 update() calls of a spike, the machine never reaches
\* CONFIRMED_FALL or ALERT.
C1_ConfirmedWithin3 ==
    state \in {"CONFIRMED_FALL", "ALERT"} => conjAge <= 3

\* C1 (amended): the grace window is 4 update() calls. With no
\* lying-and-inactive sample within 4 calls of a spike the machine never
\* reaches CONFIRMED_FALL or ALERT; the 4th call in POSSIBLE_FALL without
\* that sample returns to NORMAL, so POSSIBLE_FALL never holds with the
\* counter past 3.
C1_GraceWindow ==
    /\ state \in {"CONFIRMED_FALL", "ALERT"} => conjAge <= GraceTicks + 1
    /\ (lastUpd.pre = "POSSIBLE_FALL" /\ ~Conjunction(lastUpd)
          /\ lastUpd.preTimer + 1 > GraceTicks) => state = "NORMAL"
    /\ state = "POSSIBLE_FALL" => fall_timer <= GraceTicks

\* the window elapsed with no spike since the one that opened it
C1_Witness ==
    /\ state = "NORMAL"
    /\ lastUpd.pre = "POSSIBLE_FALL"
    /\ sinceSpike = GraceTicks + 1
    /\ conjAge > GraceTicks + 1

\* C2: in every Incident the soft-tier dispatch fires exactly once and the
\* urgent-tier dispatch at most once.
C2_SoftExactlyOnce ==
    /\ softCount <= 1
    /\ urgentCount <= 1
    /\ closed.ticks > 0 => closed.soft = 1 /\ closed.urgent <= 1

\* C3: an 'ok' handled before the 10th tick of an Incident ends it with no
\* urgent dispatch made in that Incident, on that call or before it.
C3_AckBeforeExpiry ==
    (lastH.st = "ALERT" /\ lastH.resp = "ok" /\ lastH.ticks < UrgentTick) =>
        /\ closed.urgent = 0
        /\ ~lastH.urgent
        /\ urgentCount = 0

\* acknowledged on the 9th tick, after the soft dispatch of the 5th
C3_Witness ==
    /\ lastH.st = "ALERT"
    /\ lastH.resp = "ok"
    /\ lastH.ticks = UrgentTick - 1
    /\ closed.soft = 1
    /\ closed.urgent = 0

\* C4: an 'ok' on the call where the timer becomes 5 or 10 sends no guardian
\* and no urgent alert on that call.
C4_AckOnThreshold ==
    (lastH.st = "ALERT" /\ lastH.resp = "ok"
        /\ lastH.tick \in {SoftTick, UrgentTick}) =>
        ~lastH.soft /\ ~lastH.urgent

\* acknowledged on the very call where the timer became 10
C4_Witness ==
    /\ lastH.st = "ALERT"
    /\ lastH.resp = "ok"
    /\ lastH.tick = UrgentTick
    /\ timer = 0

\* C5: however many acknowledgements arrive for one reported fall, the
\* guardian is told of the false alarm once.
C5_OneSafeNotice ==
    safeNotices <= 1

\* the responses handled so far for one medicine
ResponsesFor(e, m) == SelectSeq(respLog, LAMBDA r : r.e = e /\ r.m = m)

\* C6: a 'snooze' response leaves the Notification stored under
\* elderly_id_medicine_id as it was, and a 'taken' or 'not_taken' response
\* leaves none under that key in what get_notifications returns.
C6_ResponseClears ==
    lastOp.op = "response" =>
        LET key == MakeKey(lastOp.e, lastOp.m) IN
        /\ lastOp.resp = "snooze" =>
              Only(active_notifications, key) = lastOp.pre
        /\ lastOp.resp \in {"taken", "not_taken"} =>
              key \notin DOMAIN GetNotifications(active_notifications, lastOp.e)

\* C7: for a medicine due at 08:00, (a) once a pass was made at 08:00 and
\* while no response came, exactly one reminder was triggered, however many
\* passes the minute saw; (b) after a single 'snooze' given at 08:00, once
\* the pass of 08:03:00 is made, exactly one more reminder was triggered.
C7_ScanScenario ==
    \A e \in ElderlyIds, m \in MedicineIds :
        LET rs == ResponsesFor(e, m) IN
        /\ (lastScan >= 0 /\ TimeOfDay(now) = <<8, 0>> /\ rs = <<>>) =>
              triggered[<<e, m>>] = 1
        /\ (Len(rs) = 1 /\ rs[1].resp = "snooze" /\ TimeOfDay(rs[1].at) = <<8, 0>>
              /\ TimeOfDay(lastScan) = <<8, 3>>) =>
              triggered[<<e, m>>] = 2

\* C8: send() returns success exactly when the elderly id has a session;
\* without one the store is unchanged; with one the store is the old store
\* plus the one entry under elderly_id_itemId, which replaces an earlier one.
C8_SendNeedsSession ==
    lastOp.op = "send" =>
        LET key == MakeKey(lastOp.e, lastOp.m) IN
        /\ lastOp.ok = (lastOp.e \in DOMAIN elderly_sessions)
        /\ ~lastOp.ok => active_notifications = lastOp.pre
        /\ lastOp.ok =>
              /\ DOMAIN active_notifications = DOMAIN lastOp.pre \cup {key}
              /\ \A k \in DOMAIN lastOp.pre \ {key} :
                    active_notifications[k] = lastOp.pre[k]
              /\ active_notifications[key] =
                    [elderly_id |-> lastOp.e, medicine_id |-> lastOp.m,
                     device_info |-> elderly_sessions[lastOp.e]]
              /\ Cardinality({k \in DOMAIN active_notifications :
                                /\ active_notifications[k].elderly_id = lastOp.e
                                /\ active_notifications[k].medicine_id = lastOp.m}) = 1

\* a successful send that replaced the entry an earlier send had stored
C8_Witness ==
    /\ lastOp.op = "send"
    /\ lastOp.ok
    /\ MakeKey(lastOp.e, lastOp.m) \in DOMAIN lastOp.pre
    /\ lastOp.pre[MakeKey(lastOp.e, lastOp.m)]
          # active_notifications[MakeKey(lastOp.e, lastOp.m)]

\* C9: CONFIRMED_FALL is entered only from POSSIBLE_FALL by a call whose
\* sample is lying and inactive.
C9_ConfirmNeedsBoth ==
    /\ state = "CONFIRMED_FALL" =>
          lastUpd.pre = "POSSIBLE_FALL" /\ Conjunction(lastUpd)
    /\ (lastUpd.pre = "POSSIBLE_FALL" /\ ~Conjunction(lastUpd)) =>
          state \in {"POSSIBLE_FALL", "NORMAL"}

\* a fall confirmed by a sample that carries no spike
C9_Witness ==
    /\ state = "CONFIRMED_FALL"
    /\ lastUpd.pre = "POSSIBLE_FALL"
    /\ ~lastUpd.spike

\* C10: from NORMAL, update() goes to POSSIBLE_FALL with the counter at 0
\* exactly when spike is true, and changes nothing otherwise.
C10_NormalSpike ==
    lastUpd.pre = "NORMAL" =>
        IF lastUpd.spike
        THEN state = "POSSIBLE_FALL" /\ fall_timer = 0
        ELSE state = "NORMAL" /\ fall_timer = lastUpd.preTimer

\* a spike in NORMAL, counter left over from an earlier window, sample lying
\* and inactive
C10_Witness ==
    /\ lastUpd.pre = "NORMAL"
    /\ lastUpd.spike
    /\ lastUpd.preTimer > 0
    /\ Conjunction(lastUpd)
    /\ fall_timer = 0

\* C11: an update() made in CONFIRMED_FALL yields ALERT whatever the sample
\* is and leaves the counter alone, so CONFIRMED_FALL is never the state both
\* before and after a call.
C11_ConfirmedOneTick ==
    /\ lastUpd.pre = "CONFIRMED_FALL" =>
          state = "ALERT" /\ fall_timer = lastUpd.preTimer
    /\ state = "CONFIRMED_FALL" => lastUpd.pre = "POSSIBLE_FALL"

\* CONFIRMED_FALL left on a sample that is a spike, upright and moving
C11_Witness ==
    /\ lastUpd.pre = "CONFIRMED_FALL"
    /\ lastUpd.spike
    /\ lastUpd.posture = "upright"
    /\ ~lastUpd.inactive
    /\ state = "ALERT"

\* C12: an update() made in ALERT changes neither the state nor the counter,
\* whatever the sample is.
C12_AlertAbsorbs ==
    lastUpd.pre = "ALERT" =>
        state = "ALERT" /\ fall_timer = lastUpd.preTimer

\* an update() in ALERT with the wearer upright and moving
C12_Witness ==
    /\ lastUpd.pre = "ALERT"
    /\ lastUpd.posture = "upright"
    /\ ~lastUpd.inactive
    /\ state = "ALERT"

\* C13: a handle() call that resolves the Incident (an 'ok' in ALERT, or the
\* call that sends the urgent alert) leaves the state machine in NORMAL.
C13_ResolvedToNormal ==
    [][(/\ timer' # timer
        /\ lastH'.st = "ALERT"
        /\ (lastH'.resp = "ok" \/ lastH'.urgent)) => state' = "NORMAL"]_vars

\* C14: the first handle('ALERT') call of an Incident starts the buzzer and
\* sends the guardian (soft) alert.
C14_SoftOnEntry ==
    (lastH.st = "ALERT" /\ lastH.ticks = 1 /\ lastH.resp # "ok") =>
        buzzer /\ lastH.soft

\* C15: the 10th consecutive unacknowledged handle('ALERT') call sends the
\* urgent alert, and no call of the Incident before the 10th has sent it.
C15_UrgentOnTenth ==
    /\ (lastH.st = "ALERT" /\ lastH.ticks = UrgentTick /\ lastH.resp # "ok") =>
          lastH.urgent /\ urgentCount = 1
    /\ (lastH.st = "ALERT" /\ lastH.ticks < UrgentTick) => ~lastH.urgent
    /\ incTicks < UrgentTick => urgentCount = 0

\* ten silent ticks: the urgent alert sent on the 10th, after the soft one
C15_Witness ==
    /\ lastH.st = "ALERT"
    /\ lastH.resp = "none"
    /\ lastH.ticks = UrgentTick
    /\ lastH.urgent
    /\ timer = UrgentTick

\* C16: whenever the urgent alert has been sent in an Incident, the guardian
\* (soft) alert of that Incident was sent on an earlier call.
C16_SoftBeforeUrgent ==
    /\ urgentCount >= 1 => softCount >= 1
    /\ closed.urgent >= 1 => closed.soft >= 1
    /\ (lastH.urgent /\ ~lastH.reset) => (~lastH.soft /\ softCount >= 1)

\* the urgent alert of a second Incident, the first one acknowledged after
\* its soft alert
C16_Witness ==
    /\ lastH.urgent
    /\ closed.ticks > SoftTick
    /\ closed.soft = 1
    /\ softCount = 1
    /\ urgentCount = 1

\* C17: a 'help' response handled in ALERT sends the urgent alert on that
\* call, whatever the tick.
C17_HelpShortCircuits ==
    (lastH.st = "ALERT" /\ lastH.resp = "help") => lastH.urgent

\* the schedule entries of the medicines document, as (elderly id, entry)
Schedules ==
    {<<e, medicines[e][j]>> : e \in {IdA, IdC}, j \in {1}}

\* the date range of a schedule entry, if it has one, contains the day
InRange(med, day) ==
    (med.start_date # -1 /\ med.end_date # -1) =>
        (med.start_date <= day /\ day <= med.end_date)

HasTime(med, hm) == \E k \in 1..Len(med.times) : med.times[k] = hm

\* C18: a reminder triggered at an earlier scheduled time does not suppress
\* the one of a later scheduled time: for an active schedule of a known
\* elderly, in range and due at 08:00 and at 08:03, a second reminder has
\* been triggered once the pass of 08:03:00 is made (at that pass, or within
\* the two minutes before it).
C18_LaterTimeTriggers ==
    \A s \in Schedules :
        (/\ s[1] \in ElderlyData
         /\ s[2].active
         /\ InRange(s[2], DateOf(now))
         /\ HasTime(s[2], <<8, 0>>)
         /\ HasTime(s[2], <<8, 3>>)
         /\ lastScan >= 0
         /\ TimeOfDay(lastScan) = <<8, 3>>) =>
            triggered[<<s[1], s[2].id>>] >= 2

\* C19: no reminder is triggered for a schedule that is inactive, filed under
\* an unknown elderly id or out of its date range, as long as no snooze was
\* requested for it.
C19_IneligibleNeverTriggered ==
    \A s \in Schedules :
        (/\ \/ ~s[2].active
            \/ s[1] \notin ElderlyData
            \/ ~InRange(s[2], DateOf(now))
         /\ \A i \in 1..Len(respLog) :
               (respLog[i].e = s[1] /\ respLog[i].m = s[2].id) =>
                   respLog[i].resp # "snooze") =>
            triggered[<<s[1], s[2].id>>] = 0

\* all passes made over an inactive schedule that is in range and due at
\* 08:00 and 08:03, the elderly logged in
C19_Witness ==
    /\ lastScan = MaxTick
    /\ ~medicines[IdA][1].active
    /\ InRange(medicines[IdA][1], DateOf(now))
    /\ medicines[IdA][1].start_date # -1
    /\ HasTime(medicines[IdA][1], <<8, 3>>)
    /\ IdA \in DOMAIN elderly_sessions
    /\ triggered[<<IdA, 1>>] = 0
    /\ triggered[<<IdC, 1>>] = 0

\* C20: the reminders a pass triggers invoke the local voice alert and the
\* send to the elderly device and no other channel, with or without a
\* session of the elderly.
C20_NoGuardianChannel ==
    lastOp.op = "scan" =>
        lastOp.channels \in {{}, {"voice", "elderly_send"}}

\* a reminder triggered while the elderly has no session: nothing stored,
\* nobody else told
C20_Witness ==
    /\ lastOp.op = "scan"
    /\ lastOp.channels = {"voice", "elderly_send"}
    /\ IdA \notin DOMAIN elderly_sessions
    /\ active_notifications = EmptyDict
    /\ triggered[<<IdA, 1>>] = 1

\* the history entry a 'taken' or 'not_taken' response is to leave
HistoryEntry(r) ==
    [time_taken |-> TimeOfDay(r.at), taken |-> (r.resp = "taken"),
     timestamp |-> r.at,
     type |-> IF r.resp = "taken" THEN "automatic_reminder" ELSE "missed_dose"]

\* the entries the responses handled so far for one medicine are to leave
ExpectedHistory(e, m) ==
    LET rs == SelectSeq(ResponsesFor(e, m), LAMBDA r : r.resp # "snooze")
    IN [i \in 1..Len(rs) |-> HistoryEntry(rs[i])]

\* C21: the confirmation history of every medicine is the list, in order, of
\* one entry per 'taken' response (taken true, automatic_reminder) and per
\* 'not_taken' response (taken false, missed_dose) addressed to it: nothing
\* for a 'snooze', nothing removed or rewritten, nothing from a response to
\* another medicine.
C21_HistoryAppendOnly ==
    \A e \in DOMAIN medicines : \A j \in 1..Len(medicines[e]) :
        medicines[e][j].confirmation_history =
            ExpectedHistory(e, medicines[e][j].id)

\* two entries in one history, a dose taken and then a dose missed
C21_Witness ==
    /\ Len(medicines[IdA][1].confirmation_history) = 2
    /\ medicines[IdA][1].confirmation_history[1].taken
    /\ medicines[IdA][1].confirmation_history[2].type = "missed_dose"
    /\ medicines[IdAB][1].confirmation_history = <<>>

\* C22: a single 'snooze' for a medicine due at 08:00 stores the deadline of
\* the response time + 2 minutes and leaves the stored Notification as it
\* was; until a pass is made at or after the deadline the entry stays and
\* only the 08:00 reminder has been triggered; once such a pass is made,
\* exactly one more reminder has been triggered and the entry is gone.
C22_SnoozeRetrigger ==
    \A e \in ElderlyIds, m \in MedicineIds :
        LET rs == ResponsesFor(e, m)
            key == MakeKey(e, m)
            due == SnoozeDeadline(rs[1].at, SnoozeMinutes)
            held == \E i \in 1..Len(snoozed_reminders) :
                       snoozed_reminders[i].key = key
        IN
        (Len(rs) = 1 /\ rs[1].resp = "snooze") =>
            /\ (lastOp.op = "response" /\ lastOp.e = e /\ lastOp.m = m) =>
                  Only(active_notifications, key) = lastOp.pre
            /\ lastScan < due =>
                  /\ \E i \in 1..Len(snoozed_reminders) :
                        snoozed_reminders[i] = [key |-> key, until |-> due]
                  /\ triggered[<<e, m>>] <= 1
            /\ (lastScan >= 0 /\ lastScan < due) => triggered[<<e, m>>] = 1
            /\ lastScan >= due => (triggered[<<e, m>>] = 2 /\ ~held)

\* C23: a snooze entry that raises does not keep the pass from the other
\* entries: after every pass, each snooze entry that was due and well formed
\* has been processed and removed.
C23_PerEntryIsolation ==
    lastOp.op = "scan" =>
        \A i \in 1..Len(snoozed_reminders) :
            (/\ snoozed_reminders[i].until <= lastScan
             /\ Len(Split(snoozed_reminders[i].key)) = 2
             /\ ParseInt(Split(snoozed_reminders[i].key)[2]) # -1) => FALSE

\* C30: the cooldown counter stays within 0..10; a can_alert() call is
\* granted only when at least 10 update() calls lie between it and the
\* granted call before it, and refused only when fewer than 10 do.
C30_Cooldown ==
    /\ alert_cooldown \in 0..CooldownTicks
    /\ grantGap >= CooldownTicks
    /\ lastCan = "refused" => sinceGrant < CooldownTicks
    /\ sinceGrant < CooldownTicks => alert_cooldown = CooldownTicks - sinceGrant
    /\ sinceGrant >= CooldownTicks => alert_cooldown = 0

\* a second alert granted right after the 10th update() call
C30_Witness ==
    /\ lastCan = "granted"
    /\ grantGap = CooldownTicks
    /\ canCalls >= 3
    /\ alert_cooldown = CooldownTicks

\* no guardian phone can be found for the inputs of the last request: the
\* device is not the belt, a file is missing or unreadable, the belt has no
\* entry or no known current user, that user has no guardian of the file, or
\* the guardian has no phone
Unresolvable(d) ==
    \/ d.device_id # "vois_belt"
    \/ d.store.elderly_file # "ok"
    \/ d.store.guardians_file # "ok"
    \/ ~d.store.device_info
    \/ d.store.current_user # "known"
    \/ d.store.guardian_username # "known"
    \/ d.store.phone = "none"

\* C25: when no guardian phone can be resolved, the resolver returns absent
\* without raising, no SMS and no call is attempted, and the request is
\* still answered with success.
C25_NoGuardianSkips ==
    (lastDispatch.op # "none" /\ Unresolvable(lastDispatch)) =>
        /\ lastDispatch.phone = "none"
        /\ ~lastDispatch.raised
        /\ lastDispatch.sms_attempts = 0
        /\ lastDispatch.call_attempts = 0
        /\ lastDispatch.status = 200

\* a fall reported by the belt while the guardians file cannot be read
C25_Witness ==
    /\ lastDispatch.op = "fall"
    /\ lastDispatch.device_id = "vois_belt"
    /\ lastDispatch.store.elderly_file = "ok"
    /\ lastDispatch.store.guardians_file = "corrupt"
    /\ lastDispatch.store.guardian_username = "known"
    /\ lastDispatch.status = 200

\* C26: with a resolved phone the SMS and the call are each attempted
\* exactly once, whatever the result of either.
C26_IndependentAttempts ==
    (lastDispatch.op # "none" /\ ~Unresolvable(lastDispatch)) =>
        /\ lastDispatch.phone = lastDispatch.store.phone
        /\ lastDispatch.sms_attempts = 1
        /\ lastDispatch.call_attempts = 1

\* the urgent SMS failed and the call was still made, once
C26_Witness ==
    /\ lastDispatch.op = "no_response"
    /\ lastDispatch.phone = "+1"
    /\ ~lastDispatch.sms
    /\ lastDispatch.call
    /\ lastDispatch.sms_attempts = 1
    /\ lastDispatch.call_attempts = 1

\* C27: every elderly whose device reported a fall that was not cleared for
\* them since has an active Incident, whatever was reported or cleared for
\* the other devices; and there is an active Incident only if a report is
\* outstanding.
C27_IncidentPerElderly ==
    /\ \A d \in DeviceIds : d \in reported => fall_detected
    /\ fall_detected => reported # {}

\* C28: an elderly id has a session exactly when its last register or
\* unregister call was a register, and the session is the one of that last
\* register; a register or unregister call leaves the sessions of the other
\* ids and the notifications as they were, and unregistering an id without a
\* session changes nothing.
C28_SessionIffLastRegister ==
    /\ \A e \in ElderlyIds :
          /\ e \in DOMAIN elderly_sessions <=> lastSessionCall[e] \in Devices
          /\ e \in DOMAIN elderly_sessions => elderly_sessions[e] = lastSessionCall[e]
    /\ lastCall.op \in {"register", "unregister"} =>
          /\ \A x \in ElderlyIds \ {lastCall.e} :
                /\ x \in DOMAIN elderly_sessions <=> x \in DOMAIN lastCall.sessions
                /\ x \in DOMAIN elderly_sessions =>
                      elderly_sessions[x] = lastCall.sessions[x]
          /\ active_notifications = lastCall.notifs
    /\ (lastCall.op = "unregister" /\ lastCall.e \notin DOMAIN lastCall.sessions) =>
          elderly_sessions = lastCall.sessions

\* a register call replaced the session of an id that was unregistered and
\* registered before, while the other id had a session
C28_Witness ==
    /\ lastCall.op = "register"
    /\ lastCall.e \in DOMAIN lastCall.sessions
    /\ lastCall.sessions[lastCall.e] # elderly_sessions[lastCall.e]
    /\ DOMAIN lastCall.sessions = ElderlyIds

\* the keys of the notifications of one elderly id
KeysOf(e) == {MakeKey(e, m) : m \in MedicineIds}

\* C29: get_notifications returns exactly the stored notifications of the
\* elderly id and changes neither table; clear_notification removes the entry
\* under the key of (elderly id, item id), if there is one, and nothing else.
C29_GetAndClearFrame ==
    /\ lastCall.op = "get" =>
          /\ DOMAIN lastCall.got = DOMAIN lastCall.notifs \cap KeysOf(lastCall.e)
          /\ \A k \in DOMAIN lastCall.got : lastCall.got[k] = lastCall.notifs[k]
          /\ active_notifications = lastCall.notifs
          /\ elderly_sessions = lastCall.sessions
    /\ lastCall.op = "clear" =>
          /\ DOMAIN active_notifications =
                DOMAIN lastCall.notifs \ {MakeKey(lastCall.e, lastCall.m)}
          /\ \A k \in DOMAIN active_notifications :
                active_notifications[k] = lastCall.notifs[k]
          /\ elderly_sessions = lastCall.sessions

\* a clear call that removed one of two stored entries
C29_Witness ==
    /\ lastCall.op = "clear"
    /\ Cardinality(DOMAIN lastCall.notifs) = 2
    /\ Cardinality(DOMAIN active_notifications) = 1

\* C24: a snooze request that arrives while the scheduler thread is inside
\* its pass never makes the pass fail on the table it iterates, and no
\* deadline written by a request is deleted unprocessed by the pass.
C24_ScanSerialized ==
    /\ passError # "RuntimeError"
    /\ lostSnooze = {}

\* the quiet samples in a row after which the test expects inactivity
RequiredQuiet == 2

\* C31: inactivity is reported only when the magnitude has differed from the
\* one before by less than the tolerance on the required number of samples
\* in a row; one small difference is not enough.
C31_InactiveNeedsRun == inactiveNow => quietRun >= RequiredQuiet

\* C32: fall_timer stays within 0..4 and the machine is never left in
\* POSSIBLE_FALL by more than 4 update() calls in a row; on the 4th call after
\* the spike a lying and inactive sample confirms the fall, the timeout
\* applying only without it.
C32_GraceBounded ==
    /\ fall_timer \in 0..(GraceTicks + 1)
    /\ possibleRun <= GraceTicks + 1
    /\ (lastUpd.pre = "POSSIBLE_FALL" /\ lastUpd.preTimer = GraceTicks) =>
          state = IF Conjunction(lastUpd) THEN "CONFIRMED_FALL" ELSE "NORMAL"

\* the 4th call after the spike carried a lying and inactive sample
C32_Witness ==
    /\ lastUpd.pre = "POSSIBLE_FALL"
    /\ lastUpd.preTimer = GraceTicks
    /\ Conjunction(lastUpd)
    /\ state = "CONFIRMED_FALL"

\* C33: an update() call made in POSSIBLE_FALL, CONFIRMED_FALL or ALERT
\* leaves the machine where the same call without the spike would: the spike
\* neither resets fall_timer nor moves the state.
C33_SpikeOnlyInNormal ==
    (lastUpd.pre \in {"POSSIBLE_FALL", "CONFIRMED_FALL", "ALERT"} /\ lastUpd.spike) =>
        /\ state = (IF lastUpd.pre = "CONFIRMED_FALL" THEN "ALERT"
                    ELSE IF lastUpd.pre = "ALERT" THEN "ALERT"
                    ELSE IF Conjunction(lastUpd) THEN "CONFIRMED_FALL"
                    ELSE IF lastUpd.preTimer >= GraceTicks THEN "NORMAL"
                    ELSE "POSSIBLE_FALL")
        /\ fall_timer = (IF lastUpd.pre = "POSSIBLE_FALL" THEN lastUpd.preTimer + 1
                         ELSE lastUpd.preTimer)
        /\ fall_timer # 0

\* a spike arrived on the third call of the grace window
C33_Witness ==
    /\ lastUpd.pre = "POSSIBLE_FALL"
    /\ lastUpd.spike
    /\ lastUpd.preTimer = GraceTicks - 1
    /\ state = "POSSIBLE_FALL"

\* the indices of the responses handled for one key
ResponsesOf(e, m) == {i \in 1..Len(respLog) : respLog[i].e = e /\ respLog[i].m = m}

\* the last response for the key is 'taken' or 'not_taken'
Answered(e, m) ==
    /\ ResponsesOf(e, m) # {}
    /\ LET last == CHOOSE i \in ResponsesOf(e, m) : \A j \in ResponsesOf(e, m) : j <= i
       IN respLog[last].resp \in {"taken", "not_taken"}

\* a 'snooze' for the key was handled before its last response
SnoozedBefore(e, m) ==
    \E i, j \in ResponsesOf(e, m) : i < j /\ respLog[i].resp = "snooze"

\* what a pass starts from
PassAcc ==
    [notifs |-> active_notifications, trig |-> triggered,
     reminders |-> active_reminders, remove |-> {}, error |-> FALSE,
     channels |-> {}]

\* C34: once a key was answered 'taken' or 'not_taken', no pass re-triggers
\* it from a snooze recorded before that answer.
C34_AnswerCancelsSnooze ==
    [][\A e \in ElderlyIds, m \in MedicineIds :
          (lastScan' # lastScan /\ Answered(e, m) /\ SnoozedBefore(e, m)) =>
              SnoozedLoop(1, snoozed_reminders, PassAcc, elderly_sessions,
                          medicines, now').trig[<<e, m>>] = triggered[<<e, m>>]]_vars

\* C35: when a key was triggered in a scheduled minute and answered 'taken'
\* or 'not_taken' in it, a later pass in that minute does not trigger it again.
C35_AnswerKeepsDedup ==
    [][\A e \in ElderlyIds, m \in MedicineIds :
          (/\ lastScan' # lastScan
           /\ lastScan >= 0
           /\ ClockMinutes(lastScan) = ClockMinutes(now')
           /\ triggered[<<e, m>>] > 0
           /\ Answered(e, m)
           /\ \A i \in 1..Len(snoozed_reminders) :
                 snoozed_reminders[i].key # MakeKey(e, m)) =>
              triggered'[<<e, m>>] = triggered[<<e, m>>]]_vars

\* C36: whatever characters the elderly id has, no pass aborts, a pass made
\* at or after the deadline of a snooze entry leaves no such entry in the
\* table, and different (elderly id, medicine id) pairs have different keys.
C36_SeparatorInId ==
    /\ lastOp.op = "scan" =>
          /\ lastOp.ok
          /\ \A i \in 1..Len(snoozed_reminders) :
                snoozed_reminders[i].until > lastScan
    /\ \A e1, e2 \in ElderlyIds \cup {IdC}, m1, m2 \in MedicineIds :
          MakeKey(e1, m1) = MakeKey(e2, m2) => (e1 = e2 /\ m1 = m2)

\* C38: a snooze entry is processed by one pass only: a medicine due at 08:00
\* for which a single 'snooze' and no other response was handled has been
\* triggered at most twice, once by its schedule and once from the snooze
\* table, whether or not a session was registered.
C38_SnoozeProcessedOnce ==
    \A e \in ElderlyIds, m \in MedicineIds :
        (Len(ResponsesFor(e, m)) = 1 /\ ResponsesFor(e, m)[1].resp = "snooze") =>
            triggered[<<e, m>>] <= 2

\* C39: an unregister call removes the session and leaves the stored
\* notifications of the elderly id in place, where get_notifications still
\* returns them also without a session; a send for an id without a session
\* fails and stores nothing, and no send removes an entry.
C39_UnregisterKeepsNotifications ==
    /\ lastCall.op = "unregister" =>
          /\ lastCall.e \notin DOMAIN elderly_sessions
          /\ \A k \in DOMAIN lastCall.notifs :
                k \in DOMAIN active_notifications
                /\ active_notifications[k] = lastCall.notifs[k]
          /\ DOMAIN GetNotifications(active_notifications, lastCall.e) =
                KeysOf(lastCall.e) \cap DOMAIN lastCall.notifs
    /\ (lastCall.op = "get" /\ lastCall.e \notin DOMAIN lastCall.sessions) =>
          DOMAIN lastCall.got = KeysOf(lastCall.e) \cap DOMAIN lastCall.notifs
    /\ (lastCall.op = "none" /\ lastOp.op = "send") =>
          /\ DOMAIN lastOp.pre \subseteq DOMAIN active_notifications
          /\ lastOp.e \notin DOMAIN elderly_sessions =>
                (~lastOp.ok /\ active_notifications = lastOp.pre)

\* the session of an id with a stored notification was unregistered
C39_Witness ==
    /\ lastCall.op = "unregister"
    /\ lastCall.e \in DOMAIN lastCall.sessions
    /\ KeysOf(lastCall.e) \cap DOMAIN active_notifications # {}

\* C37: every 'taken' or 'not_taken' response handled has its entry in the
\* confirmation history of its medicine, also when two are handled at once:
\* each history is as long as the number of such responses to its medicine.
C37_BothPersisted ==
    \A e \in DOMAIN medicines : \A j \in 1..Len(medicines[e]) :
        Len(medicines[e][j].confirmation_history) =
            Cardinality({i \in ResponsesOf(e, medicines[e][j].id) :
                            respLog[i].resp \in {"taken", "not_taken"}})

====
